---- MODULE Spec2Model ----
(***************************************************************************)
(* germinate: a Seed holds a template and a registry of loaders.  parse    *)
(* scans the template for %tag:key% placeholders, obtains a loader for     *)
(* each distinct placeholder, awaits its load and collects the values in a *)
(* replacement map; germinate calls parse and then rewrites the template.  *)
(*                                                                         *)
(* Text is modelled as a sequence of one-character strings, so that the    *)
(* regular expression and str::replace are computed character by           *)
(* character.  One action is one run of the code between two suspension    *)
(* points (.await on a load) or API calls.                                 *)
(***************************************************************************)
EXTENDS Integers, Sequences, FiniteSets, TLC

\* ------------------------------------------------------------------ bounds

\* A template of a fresh Seed is a concatenation of at most MaxPieces pieces.
MaxPieces == 3

\* A template of a long-lived Seed is a concatenation of at most
\* MaxSessionPieces placeholders.
MaxSessionPieces == 2

\* A template on the EC2 tag source is a concatenation of at most
\* MaxEc2Pieces placeholders.
MaxEc2Pieces == 2

\* Calls of parse/germinate on one long-lived Seed.
MaxCalls == 2

\* Calls of add_custom_loader on one long-lived Seed.
MaxAdds == 2

\* ------------------------------------------------------------------- text

\* The character class [a-z0-9] of the pattern.
TagChars ==
    {"a", "b", "c", "d", "e", "f", "g", "h", "i", "j", "k", "l", "m",
     "n", "o", "p", "q", "r", "s", "t", "u", "v", "w", "x", "y", "z",
     "0", "1", "2", "3", "4", "5", "6", "7", "8", "9"}

\* Template fragments the inputs are built from.
PieceEnvX == <<"%", "e", "n", "v", ":", "X", "%">>
PieceEnvY == <<"%", "e", "n", "v", ":", "Y", "%">>
PieceC1X == <<"%", "c", "1", ":", "X", "%">>
\* text ending in a stray '%'
PieceTail == <<"e", "n", "v", ":", "Y", "%">>
\* text that, after a '%', opens a placeholder that is never closed
PieceOpen == <<"c", "1", ":", "X">>
\* text with a '%' followed by an upper-case tag and no closing '%'
PieceBad == <<"e", "n", "v", ":", "Y", "%", "E", ":", "X">>

\* Placeholders of the EC2 tag source.
PieceTagA ==
    <<"%", "a", "w", "s", "e", "c", "2", "t", "a", "g", ":", "A", "%">>
PieceTagB ==
    <<"%", "a", "w", "s", "e", "c", "2", "t", "a", "g", ":", "B", "%">>

Ec2Pieces == {PieceTagA, PieceTagB, PieceEnvX}

Pieces == {PieceEnvX, PieceEnvY, PieceC1X, PieceTail, PieceOpen, PieceBad}

SessionPieces == {PieceEnvX, PieceC1X}

RECURSIVE Concats(_, _)
Concats(ps, n) ==
    IF n = 0 THEN {<<>>}
    ELSE LET shorter == Concats(ps, n - 1)
         IN shorter \cup {s \o p : s \in shorter, p \in ps}

Templates == Concats(Pieces, MaxPieces)

Ec2Templates == Concats(Ec2Pieces, MaxEc2Pieces)

\* Tags of one-placeholder templates: the built-in tags, and tags that
\* differ from a built-in tag by a character.
InputTags ==
    {<<"e", "n", "v">>,
     <<"a", "w", "s", "s", "s", "m">>,
     <<"a", "w", "s", "e", "c", "2", "m", "e", "t", "a", "d", "a", "t", "a">>,
     <<"a", "w", "s", "e", "c", "2", "t", "a", "g">>,
     <<"e", "n">>,
     <<"e", "n", "v", "s">>,
     <<"a", "w", "s", "s", "s", "m", "2">>,
     <<"a", "w", "s", "e", "c", "2">>,
     <<"0">>}

TagTemplates == {<<"%">> \o tag \o <<":", "X", "%">> : tag \in InputTags}

SessionTemplates == Concats(SessionPieces, MaxSessionPieces)

\* What a load may return: a plain value, or a value that is itself the text
\* of a placeholder.
Values == {<<"v">>, PieceEnvY}

LoadOutcomes ==
    {[ok |-> TRUE, value |-> v] : v \in Values} \cup {[ok |-> FALSE, value |-> <<>>]}

\* Tags the caller registers loaders under, and the loaders it owns.
RegTags == {<<"c", "1">>, <<"e", "n", "v">>}

CallerLoaders == {"L1", "L2"}

\* ------------------------------------------------------- the pattern

NoMatch == [start |-> 0, colon |-> 0, end |-> 0]

\* [a-z0-9]+ from index i: the first index that is not a tag character.
RECURSIVE TagRunEnd(_, _)
TagRunEnd(t, i) ==
    IF i <= Len(t) /\ t[i] \in TagChars THEN TagRunEnd(t, i + 1) ELSE i

\* [^%]+ from index i: the first index that holds a '%' (or Len(t)+1).
RECURSIVE KeyRunEnd(_, _)
KeyRunEnd(t, i) ==
    IF i <= Len(t) /\ t[i] # "%" THEN KeyRunEnd(t, i + 1) ELSE i

\* A match that does not need the closing '%': the key may run to the end of
\* the text.
MatchAtUnclosed(t, i) ==
    IF i > Len(t) \/ t[i] # "%" THEN NoMatch
    ELSE LET c == TagRunEnd(t, i + 1)
         IN IF c = i + 1 \/ c > Len(t) \/ t[c] # ":" THEN NoMatch
            ELSE LET e == KeyRunEnd(t, c + 1)
                 IN IF e = c + 1 THEN NoMatch
                    ELSE IF e > Len(t) THEN [start |-> i, colon |-> c, end |-> Len(t)]
                    ELSE [start |-> i, colon |-> c, end |-> e]

\* The match of (%([a-z0-9]+):([^%]+)%) that starts at index i, if any.
MatchAt(t, i) ==
    IF i > Len(t) \/ t[i] # "%" THEN NoMatch
    ELSE LET c == TagRunEnd(t, i + 1)
         IN IF c = i + 1 \/ c > Len(t) \/ t[c] # ":" THEN NoMatch
            ELSE LET e == KeyRunEnd(t, c + 1)
                 IN IF e = c + 1 \/ e > Len(t) THEN NoMatch
                    ELSE [start |-> i, colon |-> c, end |-> e]

\* An iterator that yields the rightmost match at or after index p.
FindLast(t, p) ==
    LET at == {i \in p..Len(t) : MatchAt(t, i) # NoMatch}
    IN IF at = {} THEN NoMatch
       ELSE MatchAt(t, CHOOSE a \in at : \A b \in at : b <= a)

\* captures_iter: the leftmost match at or after index p.
RECURSIVE FindFrom(_, _)
FindFrom(t, p) ==
    IF p > Len(t) THEN NoMatch
    ELSE LET m == MatchAt(t, p)
         IN IF m # NoMatch THEN m ELSE FindFrom(t, p + 1)

\* capture[1], capture[2], capture[3]
CaptureLiteral(t, m) == SubSeq(t, m.start, m.end)

CaptureTag(t, m) == SubSeq(t, m.start + 1, m.colon - 1)

CaptureKey(t, m) == SubSeq(t, m.colon + 1, m.end - 1)

\* A loop head that takes a capture for processed when its key, not its
\* whole text, was loaded before.
RECURSIVE NextUnseenByKey(_, _, _)
NextUnseenByKey(t, p, repl) ==
    LET m == FindFrom(t, p)
        colon(l) == CHOOSE c \in 1..Len(l) : l[c] = ":" /\ \A x \in 1..(c - 1) : l[x] # ":"
        keys == {SubSeq(l, colon(l) + 1, Len(l) - 1) : l \in DOMAIN repl}
    IN IF m = NoMatch THEN NoMatch
       ELSE IF CaptureKey(t, m) \in keys
            THEN NextUnseenByKey(t, m.end + 1, repl)
            ELSE m

\* The loop head of parse: the next capture whose literal is not yet a key
\* of the replacement map (the others are skipped by `continue`).
RECURSIVE NextUnseen(_, _, _)
NextUnseen(t, p, repl) ==
    LET m == FindFrom(t, p)
    IN IF m = NoMatch THEN NoMatch
       ELSE IF CaptureLiteral(t, m) \in DOMAIN repl
            THEN CHOOSE next \in {NextUnseen(t, e + 1, repl) : e \in {m.end}} : TRUE
            ELSE m

\* ------------------------------------------------------------ sources

KeyAwsEc2Tag == <<"a", "w", "s", "e", "c", "2", "t", "a", "g">>

KeyAwsEc2Metadata ==
    <<"a", "w", "s", "e", "c", "2", "m", "e", "t", "a", "d", "a", "t", "a">>

KeyAwsSsm == <<"a", "w", "s", "s", "s", "m">>

KeyEnv == <<"e", "n", "v">>

BuiltIn(variant) == [variant |-> variant, tag |-> <<>>]

Custom(tag) == [variant |-> "Custom", tag |-> tag]

\* Whether p is a prefix of s.
StartsWith(s, p) == Len(p) <= Len(s) /\ SubSeq(s, 1, Len(p)) = p

\* A Source::from that takes a tag for built in when it starts with a
\* built-in tag.
SourceFromPrefix(tag) ==
    CASE StartsWith(tag, <<"a", "w", "s", "e", "c", "2", "t", "a", "g">>) ->
            [variant |-> "AwsEc2Tag", tag |-> <<>>]
      [] StartsWith(tag, <<"a", "w", "s", "e", "c", "2", "m", "e", "t", "a", "d", "a", "t", "a">>) ->
            [variant |-> "AwsEc2Metadata", tag |-> <<>>]
      [] StartsWith(tag, <<"a", "w", "s", "s", "s", "m">>) ->
            [variant |-> "AwsSsm", tag |-> <<>>]
      [] StartsWith(tag, <<"e", "n", "v">>) -> [variant |-> "Environment", tag |-> <<>>]
      [] OTHER -> [variant |-> "Custom", tag |-> tag]

\* Source::from
SourceFrom(tag) ==
    CASE tag = KeyAwsEc2Tag -> BuiltIn("AwsEc2Tag")
      [] tag = KeyAwsEc2Metadata -> BuiltIn("AwsEc2Metadata")
      [] tag = KeyAwsSsm -> BuiltIn("AwsSsm")
      [] tag = KeyEnv -> BuiltIn("Environment")
      [] OTHER -> Custom(tag)

\* A loader instance: who made it, its type, and which construction it was.
CallerLoader(name) == [origin |-> "caller", type |-> name, id |-> 0]

DefaultLoader(source, n) ==
    [origin |-> "default",
     type |-> CASE source.variant = "AwsEc2Tag" -> "AwsEc2TagLoader"
                [] source.variant = "AwsEc2Metadata" -> "AwsEc2MetadataLoader"
                [] source.variant = "AwsSsm" -> "AwsSsmLoader"
                [] OTHER -> "EnvironmentLoader",
     id |-> n]

\* --------------------------------------------------- the EC2 tag loader

UpperCase ==
    <<"A", "B", "C", "D", "E", "F", "G", "H", "I", "J", "K", "L", "M",
      "N", "O", "P", "Q", "R", "S", "T", "U", "V", "W", "X", "Y", "Z">>

LowerCase ==
    <<"a", "b", "c", "d", "e", "f", "g", "h", "i", "j", "k", "l", "m",
      "n", "o", "p", "q", "r", "s", "t", "u", "v", "w", "x", "y", "z">>

\* str::to_lowercase
ToLowercase(s) ==
    [i \in 1..Len(s) |->
        IF \E n \in 1..26 : UpperCase[n] = s[i]
        THEN LowerCase[CHOOSE n \in 1..26 : UpperCase[n] = s[i]]
        ELSE s[i]]

\* Option<String>
None == [some |-> FALSE, v |-> <<>>]

Some(v) == [some |-> TRUE, v |-> v]

\* The tag sets describe_tags may answer with: Vec<TagDescription>.
TagVectors ==
    {<<>>,
     <<[key |-> Some(<<"a">>), value |-> Some(<<"v">>)],
       [key |-> Some(<<"A">>), value |-> Some(PieceEnvY)],
       [key |-> Some(<<"B">>), value |-> Some(<<"v">>)]>>,
     <<[key |-> None, value |-> Some(<<"v">>)],
       [key |-> Some(<<"B">>), value |-> None],
       [key |-> Some(<<"a">>), value |-> Some(<<"v">>)]>>}

\* AwsEc2TagLoader::get_tag_value on the stored tags: the first tag whose
\* key equals the key, both in lower case.
GetTagValue(tags, key) ==
    LET hits == {n \in 1..Len(tags) :
                    ToLowercase(IF tags[n].key.some THEN tags[n].key.v ELSE <<>>)
                        = ToLowercase(key)}
    IN IF hits = {} THEN [ok |-> FALSE, value |-> <<>>]
       ELSE LET first == CHOOSE a \in hits : \A b \in hits : a <= b
            IN IF tags[first].value.some
               THEN [ok |-> TRUE, value |-> tags[first].value.v]
               ELSE [ok |-> FALSE, value |-> <<>>]

\* What constructing a default loader may come to: whether it succeeded, the
\* underlying requests it made, in order, and the tags it stored.
\* AwsEc2TagLoader::new: the region lookup, the instance id and the tags of
\* the instance are fetched in turn; each may fail, and a response may hold
\* no tags.
AwsEc2TagConstructions ==
    {[ok |-> FALSE, requests |-> <<"region">>, tags |-> <<>>],
     [ok |-> FALSE, requests |-> <<"region", "instance-id">>, tags |-> <<>>],
     [ok |-> FALSE, requests |-> <<"region", "instance-id", "describe-tags">>,
      tags |-> <<>>]}
    \cup {[ok |-> TRUE, requests |-> <<"region", "instance-id", "describe-tags">>,
           tags |-> tv] : tv \in TagVectors}

\* The constructors of the other built-in loaders make no request and cannot
\* fail; neither does a get_loader that constructs nothing.
NoConstruction == [ok |-> TRUE, requests |-> <<>>, tags |-> <<>>]

\* HashMap::insert
MapInsert(map, k, v) ==
    [x \in (DOMAIN map) \cup {k} |-> IF x = k THEN v ELSE map[x]]

EmptyMap == <<>>

\* get_loader that, failing on an unregistered custom source, leaves an
\* entry for it in the registry.
GetLoaderLeavesEntry(regs, source, n) ==
    IF source \in DOMAIN regs
    THEN [ok |-> TRUE, how |-> "cached", loader |-> regs[source], regs |-> regs]
    ELSE IF source.variant = "Custom"
         THEN [ok |-> FALSE, how |-> "unsupported", loader |-> CallerLoader("none"),
               regs |-> MapInsert(regs, source, CallerLoader("none"))]
         ELSE LET loader == DefaultLoader(source, n + 1)
              IN [ok |-> TRUE, how |-> "constructed", loader |-> loader,
                  regs |-> MapInsert(regs, source, loader)]

\* get_loader that builds a built-in loader on every use and never reuses one.
GetLoaderAlwaysBuilds(regs, source, n) ==
    IF source.variant = "Custom"
    THEN IF source \in DOMAIN regs
         THEN [ok |-> TRUE, how |-> "cached", loader |-> regs[source], regs |-> regs]
         ELSE [ok |-> FALSE, how |-> "unsupported",
               loader |-> [origin |-> "caller", type |-> "none", id |-> 0], regs |-> regs]
    ELSE LET loader == [origin |-> "default", type |-> source.variant, id |-> n + 1]
         IN [ok |-> TRUE, how |-> "constructed", loader |-> loader,
             regs |-> [x \in (DOMAIN regs) \cup {source} |->
                          IF x = source THEN loader ELSE regs[x]]]

\* get_loader that builds a default loader for any source it does not hold.
GetLoaderFabricates(regs, source, n) ==
    IF source \in DOMAIN regs
    THEN [ok |-> TRUE, how |-> "cached", loader |-> regs[source], regs |-> regs]
    ELSE LET loader == DefaultLoader(source, n + 1)
         IN [ok |-> TRUE, how |-> "constructed", loader |-> loader,
             regs |-> MapInsert(regs, source, loader)]

\* Seed::get_loader on registry regs, after n constructions in this Seed.
GetLoader(regs, source, n) ==
    IF source \in DOMAIN regs
    THEN [ok |-> TRUE, how |-> "cached", loader |-> regs[source], regs |-> regs]
    ELSE IF source.variant = "Custom"
         THEN [ok |-> FALSE, how |-> "unsupported",
               loader |-> CallerLoader("none"), regs |-> regs]
         ELSE LET loader == DefaultLoader(source, n + 1)
              IN [ok |-> TRUE, how |-> "constructed", loader |-> loader,
                  regs |-> MapInsert(regs, source, loader)]

\* A get_loader that runs the constructor of the EC2 tag loader before it
\* looks for a cached one.
ConstructionOutcomesEveryTime(regs, source) ==
    IF source.variant = "AwsEc2Tag" THEN AwsEc2TagConstructions ELSE {NoConstruction}

\* What the constructor get_loader would run for source may come to.
ConstructionOutcomes(regs, source) ==
    IF source \notin DOMAIN regs /\ source.variant = "AwsEc2Tag"
    THEN AwsEc2TagConstructions
    ELSE {NoConstruction}

\* A get_loader that stores the loader although its constructor failed.
ResolveCachesFailed(regs, source, n, built) == GetLoader(regs, source, n)

\* get_loader with a constructor that came to built: a failed construction
\* is returned as the error of get_loader and nothing is stored.
Resolve(regs, source, n, built) ==
    IF built.ok THEN GetLoader(regs, source, n)
    ELSE [ok |-> FALSE, how |-> "failed", loader |-> CallerLoader("none"), regs |-> regs]

\* What load(key) on loader may return: the EC2 tag loader answers from
\* its stored tags, any other loader with whatever its source holds.
Outcomes(loader, key, tags) ==
    IF loader.type = "AwsEc2TagLoader" THEN {GetTagValue(tags, key)}
    ELSE LoadOutcomes

\* anyhow errors, with the context parse attaches.
UnsupportedError(tag) ==
    [context |-> "Failed to parse template string",
     msg |-> "Unsupported value source", arg |-> tag]

ConstructionError ==
    [context |-> "Failed to parse template string",
     msg |-> "constructor error", arg |-> <<>>]

LoadError ==
    [context |-> "Failed to load value", msg |-> "loader error", arg |-> <<>>]

\* ------------------------------------------------------- replacement

\* Whether k occurs in s at index i.
OccursAt(s, k, i) ==
    /\ i + Len(k) - 1 <= Len(s)
    /\ SubSeq(s, i, i + Len(k) - 1) = k

\* str::replace: every non-overlapping occurrence of k, left to right.
RECURSIVE ReplaceFrom(_, _, _, _)
ReplaceFrom(s, k, v, i) ==
    IF i > Len(s) THEN <<>>
    ELSE IF OccursAt(s, k, i) THEN v \o ReplaceFrom(s, k, v, i + Len(k))
         ELSE <<s[i]>> \o ReplaceFrom(s, k, v, i + 1)

Replace(s, k, v) == ReplaceFrom(s, k, v, 1)

\* The orders a HashMap of these keys may be iterated in.
Orders(keys) ==
    {o \in [1..Cardinality(keys) -> keys] :
        \A i, j \in 1..Cardinality(keys) : i # j => o[i] # o[j]}

\* The for loop of germinate over the map, in iteration order o.  The
\* output of each pass is bound to r, so that it is computed once.
RECURSIVE ReplaceAll(_, _, _, _)
ReplaceAll(s, repl, o, i) ==
    IF i > Len(o) THEN s
    ELSE CHOOSE out \in {ReplaceAll(r, repl, o, i + 1) :
                             r \in {Replace(s, o[i], repl[o[i]])}} : TRUE

GerminateOutputs(t, repl) ==
    {ReplaceAll(t, repl, o, 1) : o \in Orders(DOMAIN repl)}

\* -------------------------------------------------------------- state

VARIABLES
    mode,           \* "lib": the library is called; "cli": main runs
    outArg,         \* cli: the --output-file argument, "-" when absent
    template,       \* Seed.template
    loaders,        \* Seed.loaders
    callsLeft,      \* parse/germinate calls the caller may still make
    addsLeft,       \* add_custom_loader calls the caller may still make
    pc,             \* "idle", "start" (cli), "awaiting" a load, "exited"
    call,           \* the running or last call: "none", "parse", "germinate"
    pos,            \* where captures_iter resumes
    replacements,   \* parse's local map
    inflight,       \* load invocations that have not returned
    lookups,        \* get_loader invocations of this call, in order
    loads,          \* returned load invocations of this call, in order
    ret,            \* what the last call returned
    constructions,  \* sources get_loader constructed a loader for, in order
    served,         \* <<source, loader>> pairs get_loader has returned
    regsAtCall,     \* Seed.loaders as it was when the running or last call began
    ec2Tags,        \* AwsEc2TagLoader.tags of the loader the registry holds
    requests,       \* underlying requests made by constructors, in order
    adds,           \* the add_custom_loader calls made, in order
    unsupported,    \* the tags a call on this Seed has failed on as unsupported
    stdout,         \* cli: texts printed
    outfile,        \* cli: texts written to the output file
    exitCode        \* cli: -1 while running

vars ==
    <<mode, outArg, template, loaders, callsLeft, addsLeft, pc, call, pos,
      replacements, inflight, lookups, loads, ret, constructions, served,
      regsAtCall, ec2Tags, requests, adds, unsupported, stdout, outfile,
      exitCode>>

cliVars == <<stdout, outfile, exitCode>>

NoResult == [call |-> "none", status |-> "none", maps |-> {}, texts |-> {}, errs |-> {}]

OkMap(repl) == [call |-> "parse", status |-> "ok", maps |-> {repl}, texts |-> {}, errs |-> {}]

OkText(text) == [call |-> "germinate", status |-> "ok", maps |-> {}, texts |-> {text}, errs |-> {}]

\* A failure that hands the template back as the result.
FailedPassesThrough(c, e) ==
    [call |-> c, status |-> "ok", maps |-> {}, texts |-> {template}, errs |-> {}]

Failed(c, e) == [call |-> c, status |-> "err", maps |-> {}, texts |-> {}, errs |-> {e}]

\* Seed::new, for a caller of the library or for main.
InitCommon ==
    /\ loaders = EmptyMap
    /\ call = "none"
    /\ pos = 1
    /\ replacements = EmptyMap
    /\ inflight = {}
    /\ lookups = <<>>
    /\ loads = <<>>
    /\ ret = NoResult
    /\ constructions = <<>>
    /\ served = {}
    /\ regsAtCall = EmptyMap
    /\ ec2Tags = <<>>
    /\ requests = <<>>
    /\ adds = <<>>
    /\ unsupported = {}
    /\ stdout = {}
    /\ outfile = {}
    /\ exitCode = -1

\* A fresh Seed on any template, called once.
InitFresh ==
    /\ mode = "lib"
    /\ outArg = "-"
    /\ template \in Templates
    /\ callsLeft = 1
    /\ addsLeft = 1
    /\ pc = "idle"

\* A Seed that is registered on and called several times.
InitSession ==
    /\ mode = "lib"
    /\ outArg = "-"
    /\ template \in SessionTemplates
    /\ callsLeft = MaxCalls
    /\ addsLeft = MaxAdds
    /\ pc = "idle"

\* The command line: the input file holds the template.
InitCli ==
    /\ mode = "cli"
    /\ outArg \in {"-", "path"}
    /\ template \in Templates
    /\ callsLeft = 1
    /\ addsLeft = 0
    /\ pc = "start"

\* A Seed on a template of EC2 tag placeholders, called several times.
InitEc2 ==
    /\ mode = "lib"
    /\ outArg = "-"
    /\ template \in Ec2Templates
    /\ callsLeft = MaxCalls
    /\ addsLeft = 0
    /\ pc = "idle"

\* A fresh Seed on one placeholder of any of the tags, called once.
InitTags ==
    /\ mode = "lib"
    /\ outArg = "-"
    /\ template \in TagTemplates
    /\ callsLeft = 1
    /\ addsLeft = 0
    /\ pc = "idle"

Init == InitCommon /\ (InitFresh \/ InitSession \/ InitCli \/ InitEc2 \/ InitTags)

\* ------------------------------------------------------------ actions

\* main, after germinate returned r.
MainAfter(r) ==
    IF r.status = "err"
    THEN /\ exitCode' = 1
         /\ UNCHANGED <<stdout, outfile>>
    ELSE IF outArg = "-"
         THEN /\ stdout' = r.texts
              /\ exitCode' = 0
              /\ UNCHANGED outfile
         ELSE \/ /\ outfile' = r.texts
                 /\ exitCode' = 0
                 /\ UNCHANGED stdout
              \/ /\ exitCode' = 1
                 /\ UNCHANGED <<stdout, outfile>>

\* The call returns r.
Complete(r) ==
    /\ ret' = r
    /\ inflight' = {}
    /\ IF mode = "cli"
       THEN pc' = "exited" /\ MainAfter(r)
       ELSE pc' = "idle" /\ UNCHANGED cliVars

\* parse returned Ok(repl) to the caller c.
ParseOk(c, repl) ==
    IF c = "parse" THEN Complete(OkMap(repl))
    ELSE \E out \in GerminateOutputs(template, repl) : Complete(OkText(out))

\* The loop of parse from scan position p with map repl, up to the next
\* .await or the return; lk and ld are the call's logs so far.
Resume(c, p, repl, lk, ld) ==
    \E m \in {NextUnseen(template, p, repl)} :
       /\ replacements' = repl
       /\ loads' = ld
       /\ IF m = NoMatch
          THEN /\ ParseOk(c, repl)
               /\ pos' = Len(template) + 1
               /\ lookups' = lk
               /\ UNCHANGED <<loaders, constructions, served, ec2Tags, requests,
                              unsupported>>
          ELSE LET lit == CaptureLiteral(template, m)
                   source == SourceFrom(CaptureTag(template, m))
               IN \E built \in ConstructionOutcomes(loaders, source) :
                  LET got == Resolve(loaders, source, Len(constructions), built)
                  IN
                  /\ pos' = m.end + 1
                  /\ unsupported' =
                        IF got.how = "unsupported"
                        THEN unsupported \cup {source.tag} ELSE unsupported
                  /\ requests' = requests \o built.requests
                  /\ ec2Tags' =
                        IF got.how = "constructed" /\ source.variant = "AwsEc2Tag"
                        THEN built.tags ELSE ec2Tags
                  /\ lookups' = Append(lk, [lit |-> lit, source |-> source,
                                             how |-> got.how, built |-> built.ok])
                  /\ loaders' = got.regs
                  /\ constructions' =
                        IF got.how = "constructed"
                        THEN Append(constructions, source) ELSE constructions
                  /\ IF got.ok
                     THEN /\ served' = served \cup {<<source, got.loader>>}
                          /\ inflight' =
                                {[lit |-> lit, key |-> CaptureKey(template, m),
                                  source |-> source, loader |-> got.loader]}
                          /\ pc' = "awaiting"
                          /\ ret' = NoResult
                          /\ UNCHANGED cliVars
                     ELSE /\ served' = served
                          /\ Complete(Failed(c, IF got.how = "unsupported"
                                                THEN UnsupportedError(source.tag)
                                                ELSE ConstructionError))

\* add_custom_loader that stores the loader under the identity Source::from
\* gives the tag, so that a built-in tag names the built-in identity.
AddCustomLoaderBySource(key, name) ==
    /\ pc = "idle"
    /\ addsLeft > 0
    /\ addsLeft' = addsLeft - 1
    /\ loaders' = MapInsert(loaders, SourceFrom(key), CallerLoader(name))
    /\ adds' = Append(adds, <<key, name>>)
    /\ UNCHANGED <<mode, outArg, template, callsLeft, pc, call, pos, replacements,
                   inflight, lookups, loads, ret, constructions, served, regsAtCall,
                   ec2Tags, requests, unsupported, cliVars>>

\* An add_custom_loader that keeps the loader a tag already has.
AddCustomLoaderKeepsFirst(key, name) ==
    /\ pc = "idle"
    /\ addsLeft > 0
    /\ addsLeft' = addsLeft - 1
    /\ loaders' = IF Custom(key) \in DOMAIN loaders THEN loaders
                  ELSE MapInsert(loaders, Custom(key), CallerLoader(name))
    /\ adds' = Append(adds, <<key, name>>)
    /\ UNCHANGED <<mode, outArg, template, callsLeft, pc, call, pos, replacements,
                   inflight, lookups, loads, ret, constructions, served, regsAtCall,
                   ec2Tags, requests, unsupported, cliVars>>

\* Seed::add_custom_loader
AddCustomLoader(key, name) ==
    /\ pc = "idle"
    /\ addsLeft > 0
    /\ addsLeft' = addsLeft - 1
    /\ loaders' = MapInsert(loaders, Custom(key), CallerLoader(name))
    /\ adds' = Append(adds, <<key, name>>)
    /\ UNCHANGED <<mode, outArg, template, callsLeft, pc, call, pos, replacements,
                   inflight, lookups, loads, ret, constructions, served, regsAtCall,
                   ec2Tags, requests, unsupported, cliVars>>

\* A parse whose replacement map outlives the call: a later call starts
\* with what an earlier call had loaded.
ParseKeepsMap ==
    /\ pc = "idle"
    /\ callsLeft > 0
    /\ callsLeft' = callsLeft - 1
    /\ call' = "parse"
    /\ regsAtCall' = loaders
    /\ Resume("parse", 1, replacements, <<>>, <<>>)
    /\ UNCHANGED <<mode, outArg, template, addsLeft, adds>>

\* Seed::parse is called.
Parse ==
    /\ pc = "idle"
    /\ callsLeft > 0
    /\ callsLeft' = callsLeft - 1
    /\ call' = "parse"
    /\ regsAtCall' = loaders
    /\ Resume("parse", 1, EmptyMap, <<>>, <<>>)
    /\ UNCHANGED <<mode, outArg, template, addsLeft, adds>>

\* Seed::germinate is called.
Germinate ==
    /\ pc = "idle"
    /\ callsLeft > 0
    /\ callsLeft' = callsLeft - 1
    /\ call' = "germinate"
    /\ regsAtCall' = loaders
    /\ Resume("germinate", 1, EmptyMap, <<>>, <<>>)
    /\ UNCHANGED <<mode, outArg, template, addsLeft, adds>>

\* main: reads the input file, builds the Seed and calls germinate.
Main ==
    /\ pc = "start"
    /\ callsLeft' = callsLeft - 1
    /\ regsAtCall' = loaders
    /\ \/ /\ call' = "germinate"
          /\ Resume("germinate", 1, EmptyMap, <<>>, <<>>)
       \/ /\ pc' = "exited"
          /\ exitCode' = 1
          /\ UNCHANGED <<call, pos, replacements, inflight, lookups, loads, ret,
                         loaders, constructions, served, ec2Tags, requests,
                         unsupported, stdout, outfile>>
    /\ UNCHANGED <<mode, outArg, template, addsLeft, adds>>

\* A load whose failure is swallowed: parse goes on with the next placeholder.
LoadReturnGoesOn(outcome) ==
    /\ pc = "awaiting"
    /\ \E inv \in inflight :
          /\ outcome \in Outcomes(inv.loader, inv.key, ec2Tags)
          /\ LET ld == Append(loads, [lit |-> inv.lit, key |-> inv.key, source |-> inv.source,
                                      loader |-> inv.loader, res |-> outcome])
             IN Resume(call, pos,
                       IF outcome.ok THEN MapInsert(replacements, inv.lit, outcome.value)
                       ELSE replacements,
                       lookups, ld)
    /\ UNCHANGED <<mode, outArg, template, callsLeft, addsLeft, call, regsAtCall, adds>>

\* A parse that gives up on a load that fails to answer: it returns the
\* error although the load has not returned.
LoadReturnOrTimeout(outcome) ==
    /\ pc = "awaiting"
    /\ \E inv \in inflight :
          /\ outcome \in Outcomes(inv.loader, inv.key, ec2Tags)
          /\ LET ld == Append(loads, [lit |-> inv.lit, key |-> inv.key, source |-> inv.source,
                                      loader |-> inv.loader, res |-> outcome])
             IN IF outcome.ok
                THEN Resume(call, pos, MapInsert(replacements, inv.lit, outcome.value),
                            lookups, ld)
                ELSE /\ Complete(Failed(call, LoadError))
                     /\ UNCHANGED <<loads, pos, replacements, lookups, loaders,
                                    constructions, served, ec2Tags, requests,
                                    unsupported>>
    /\ UNCHANGED <<mode, outArg, template, callsLeft, addsLeft, call, regsAtCall, adds>>

\* The awaited load returns.
LoadReturn(outcome) ==
    /\ pc = "awaiting"
    /\ \E inv \in inflight :
          /\ outcome \in Outcomes(inv.loader, inv.key, ec2Tags)
          /\ LET ld == Append(loads, [lit |-> inv.lit, key |-> inv.key, source |-> inv.source,
                                      loader |-> inv.loader, res |-> outcome])
             IN IF outcome.ok
                THEN Resume(call, pos, MapInsert(replacements, inv.lit, outcome.value),
                            lookups, ld)
                ELSE /\ Complete(Failed(call, LoadError))
                     /\ loads' = ld
                     /\ UNCHANGED <<pos, replacements, lookups, loaders, constructions,
                                    served, ec2Tags, requests, unsupported>>
    /\ UNCHANGED <<mode, outArg, template, callsLeft, addsLeft, call, regsAtCall, adds>>

Next ==
    \/ \E key \in RegTags, name \in CallerLoaders : AddCustomLoader(key, name)
    \/ Parse
    \/ Germinate
    \/ Main
    \/ \E outcome \in LoadOutcomes : LoadReturn(outcome)

Spec == Init /\ [][Next]_vars

\* A Seed, of the library or of main, that is called once.
InitOneCall ==
    /\ template \in Ec2Templates \cup SessionTemplates
    /\ callsLeft = 1
    /\ \/ /\ mode = "lib"
          /\ outArg = "-"
          /\ addsLeft = 1
          /\ pc = "idle"
       \/ /\ mode = "cli"
          /\ outArg \in {"-", "path"}
          /\ addsLeft = 0
          /\ pc = "start"

\* The behaviours of one call in which every load that is awaited returns.
FairInit == InitCommon /\ InitOneCall

FairSpec ==
    /\ FairInit
    /\ [][Next]_vars
    /\ WF_vars(\E outcome \in LoadOutcomes : LoadReturn(outcome))

\* ---------------------------------------------- what the template holds

\* t[i..j] has the shape %tag:key%: a tag of lower-case letters and digits,
\* a colon, a non-empty key without '%'.
IsPlaceholder(t, i, j) ==
    /\ 1 <= i
    /\ j <= Len(t)
    /\ i + 4 <= j
    /\ t[i] = "%"
    /\ t[j] = "%"
    /\ \A x \in (i + 1)..(j - 1) : t[x] # "%"
    /\ \E c \in (i + 2)..(j - 2) :
          /\ t[c] = ":"
          /\ \A x \in (i + 1)..(c - 1) : t[x] \in TagChars

\* The leftmost, non-overlapping placeholders of t from index p on, as
\* <<first, last>> pairs in order.  A placeholder holds no '%' inside, so at
\* most one ends for a given start.
RECURSIVE Placeholders(_, _)
Placeholders(t, p) ==
    IF p > Len(t) THEN <<>>
    ELSE IF t[p] # "%" THEN Placeholders(t, p + 1)
    ELSE LET ends == {j \in (p + 4)..Len(t) : IsPlaceholder(t, p, j)}
         IN IF ends = {} THEN Placeholders(t, p + 1)
            ELSE LET j == CHOOSE b \in ends : TRUE
                 IN <<(<<p, j>>)>> \o Placeholders(t, j + 1)

\* Their texts, in order of occurrence.
PlaceholderTexts(t) ==
    LET ms == Placeholders(t, 1)
    IN [n \in 1..Len(ms) |-> SubSeq(t, ms[n][1], ms[n][2])]

SeqRange(s) == {s[n] : n \in 1..Len(s)}

\* The distinct texts, in order of first occurrence.
RECURSIVE Distinct(_)
Distinct(s) ==
    IF s = <<>> THEN <<>>
    ELSE LET front == Distinct(SubSeq(s, 1, Len(s) - 1))
         IN IF s[Len(s)] \in SeqRange(front) THEN front
            ELSE Append(front, s[Len(s)])

DistinctPlaceholders(t) == Distinct(PlaceholderTexts(t))

\* t with every placeholder occurrence replaced, all at once, by f of its text.
RECURSIVE SubstituteFrom(_, _, _, _, _)
SubstituteFrom(t, ms, n, p, f) ==
    IF n > Len(ms) THEN SubSeq(t, p, Len(t))
    ELSE SubSeq(t, p, ms[n][1] - 1)
            \o f[SubSeq(t, ms[n][1], ms[n][2])]
            \o SubstituteFrom(t, ms, n + 1, ms[n][2] + 1, f)

Substitute(t, f) == SubstituteFrom(t, Placeholders(t, 1), 1, 1, f)

\* The call has returned.
Returned == pc \in {"idle", "exited"} /\ ret.status # "none"

\* The value the load for text lit returned in this call.
LoadedValue(lit) ==
    loads[CHOOSE n \in 1..Len(loads) : loads[n].lit = lit /\ loads[n].res.ok].res.value

LoadCount(lit) == Cardinality({n \in 1..Len(loads) : loads[n].lit = lit})

GerminateOk == Returned /\ ret.call = "germinate" /\ ret.status = "ok"

ParseOkReturned == Returned /\ ret.call = "parse" /\ ret.status = "ok"

\* What the occurrences of the other placeholders may have turned into.
Candidates(t) == Values \cup SeqRange(PlaceholderTexts(t))

\* C1: when germinate succeeds, every placeholder text of the template was
\* loaded exactly once in that call, and the returned text is the template
\* with each occurrence of that placeholder replaced by the value its load
\* returned (whatever the other placeholders were replaced by).
C1_LoadedOnceAllOccurrencesReplaced ==
    GerminateOk =>
        \A lit \in SeqRange(PlaceholderTexts(template)) :
            /\ LoadCount(lit) = 1
            /\ \E f \in [SeqRange(PlaceholderTexts(template)) -> Candidates(template)] :
                  /\ f[lit] = LoadedValue(lit)
                  /\ ret.texts = {Substitute(template, f)}

\* C4: when germinate succeeds, the returned text is the template with all
\* placeholder occurrences replaced at once, each by the value loaded for it;
\* no loaded value is processed again.
C4_OutputIsSimultaneousSubstitution ==
    GerminateOk => ret.texts = {Substitute(template, replacements)}

\* The tag and the key of a placeholder text %tag:key%.
TextColon(lit) == CHOOSE c \in 1..Len(lit) : lit[c] = ":" /\ \A x \in 1..(c - 1) : lit[x] # ":"

TextTag(lit) == SubSeq(lit, 2, TextColon(lit) - 1)

TextKey(lit) == SubSeq(lit, TextColon(lit) + 1, Len(lit) - 1)

BuiltInTags == {KeyAwsEc2Tag, KeyAwsEc2Metadata, KeyAwsSsm, KeyEnv}

AllLoadsOk == \A n \in 1..Len(loads) : loads[n].res.ok

\* No constructor of a default loader failed in the running or last call.
AllBuilt == \A n \in 1..Len(lookups) : lookups[n].how # "failed"

\* The places, in first-occurrence order, of the placeholders whose tag is
\* not built in and had no loader registered when the call began.
UnregisteredCustom(t) ==
    LET dp == DistinctPlaceholders(t)
    IN {n \in 1..Len(dp) :
            /\ TextTag(dp[n]) \notin BuiltInTags
            /\ Custom(TextTag(dp[n])) \notin DOMAIN regsAtCall}

\* C2: a parse or germinate call on a template that holds a placeholder with
\* a tag that is not built in and has no registered loader returns an error,
\* no map and no text; when resolution gets as far as that placeholder (no
\* earlier load or construction failed) the error is the unsupported-source
\* error naming its tag.  With a loader registered under every such tag
\* before the call, the call does not fail for that reason: it succeeds
\* when its constructions and loads succeed.
C2_UnregisteredCustomTagFails ==
    Returned =>
        LET dp == DistinctPlaceholders(template)
            bad == UnregisteredCustom(template)
        IN /\ bad # {} =>
                /\ ret.status = "err"
                /\ ret.maps = {}
                /\ ret.texts = {}
                /\ (AllLoadsOk /\ AllBuilt) =>
                      ret.errs = {UnsupportedError(
                          TextTag(dp[CHOOSE a \in bad : \A b \in bad : a <= b]))}
           /\ (bad = {} /\ AllLoadsOk /\ AllBuilt) => ret.status = "ok"

\* A germinate call that loaded one placeholder and then failed on %c1:X%.
C2_Witness ==
    /\ Returned
    /\ ret.call = "germinate"
    /\ ret.errs = {UnsupportedError(<<"c", "1">>)}
    /\ ret.texts = {}
    /\ Len(loads) = 1

\* The load invocations of the running or last call, returned or not.
Invocations ==
    {[lit |-> loads[n].lit, key |-> loads[n].key, loader |-> loads[n].loader] :
        n \in 1..Len(loads)}
    \cup {[lit |-> inv.lit, key |-> inv.key, loader |-> inv.loader] : inv \in inflight}

RegisteredAtCall(tag) == Custom(tag) \in DOMAIN regsAtCall

\* C3 as stated: a load for a placeholder whose tag, built in or not, had a
\* loader registered by add_custom_loader before the call is a load on that
\* registered loader with the placeholder's key.
C3_RegisteredLoaderResolvesEveryTag ==
    \A inv \in Invocations :
        RegisteredAtCall(TextTag(inv.lit)) =>
            /\ inv.loader = regsAtCall[Custom(TextTag(inv.lit))]
            /\ inv.key = TextKey(inv.lit)

\* C3 amended: for a tag that is not built in, every load for a placeholder
\* of that tag is a load on the loader registered under it, with the
\* placeholder's key, and a successful call has made that load for each such
\* placeholder of the template.  A placeholder with a built-in tag is loaded
\* from the default loader of its source also when a loader was registered
\* under its tag.
C3_RegisteredLoaderResolvesCustomTag ==
    /\ \A inv \in Invocations :
          /\ inv.key = TextKey(inv.lit)
          /\ IF TextTag(inv.lit) \in BuiltInTags
             THEN inv.loader.origin = "default"
             ELSE /\ RegisteredAtCall(TextTag(inv.lit))
                  /\ inv.loader = regsAtCall[Custom(TextTag(inv.lit))]
                  /\ inv.loader.origin = "caller"
    /\ (Returned /\ ret.status = "ok") =>
          \A lit \in SeqRange(PlaceholderTexts(template)) :
              \E inv \in Invocations : inv.lit = lit

\* One call loaded %c1:X% from the registered loader and %env:X% from the
\* default loader although a loader was registered under "env" too.
C3_Witness ==
    /\ RegisteredAtCall(KeyEnv)
    /\ RegisteredAtCall(<<"c", "1">>)
    /\ \E a, b \in Invocations :
          /\ a.lit = PieceC1X
          /\ a.loader.origin = "caller"
          /\ b.lit = PieceEnvX
          /\ b.loader.origin = "default"

LookupTexts == [n \in 1..Len(lookups) |-> lookups[n].lit]

LoadTexts == [n \in 1..Len(loads) |-> loads[n].lit]

LastLookupUnsupported ==
    Len(lookups) > 0 /\ lookups[Len(lookups)].how = "unsupported"

LastLoadFailed == Len(loads) > 0 /\ ~loads[Len(loads)].res.ok

LastConstructionFailed ==
    Len(lookups) > 0 /\ lookups[Len(lookups)].how = "failed"

\* C5: parse stops at the first failure.  Only the last get_loader of a call
\* can have failed and only its last load; once one has, the call has
\* returned that error, with no map and no text, nothing is in flight, and
\* the placeholders looked up and loaded are exactly the first i distinct
\* placeholders of the template, i being the one that failed: no later
\* placeholder had a loader obtained or a load invoked.
C5_ParseFailsFast ==
    LET dp == DistinctPlaceholders(template)
        i == Len(lookups)
    IN /\ \A n \in 1..(Len(lookups) - 1) : lookups[n].how \notin {"unsupported", "failed"}
       /\ \A n \in 1..(Len(loads) - 1) : loads[n].res.ok
       /\ (LastLookupUnsupported \/ LastConstructionFailed \/ LastLoadFailed) =>
             /\ Returned
             /\ inflight = {}
             /\ ret.status = "err"
       /\ (Returned /\ ret.status = "err") =>
             /\ ret.maps = {}
             /\ ret.texts = {}
             /\ i >= 1
             /\ i <= Len(dp)
             /\ LookupTexts = SubSeq(dp, 1, i)
             /\ IF LastLookupUnsupported
                THEN /\ LoadTexts = SubSeq(dp, 1, i - 1)
                     /\ ret.errs = {UnsupportedError(TextTag(dp[i]))}
                ELSE IF LastConstructionFailed
                THEN /\ LoadTexts = SubSeq(dp, 1, i - 1)
                     /\ ret.errs = {ConstructionError}
                ELSE /\ LoadTexts = SubSeq(dp, 1, i)
                     /\ LastLoadFailed
                     /\ ret.errs = {LoadError}

\* The second of three distinct placeholders failed to load after the first
\* was loaded: the third was never looked up.
C5_Witness ==
    /\ Returned
    /\ ret.status = "err"
    /\ Len(DistinctPlaceholders(template)) = 3
    /\ Len(lookups) = 2
    /\ Len(loads) = 2
    /\ LastLoadFailed

\* C6: germinate returns either one text, with every placeholder of the
\* template loaded and in the map, or one error and no text; and the command
\* line writes nothing before germinate has returned, and when germinate (or
\* reading the input) failed it has written nothing to standard output or to
\* the output file and exits with a status other than 0.
C6_AllOrNothing ==
    /\ (Returned /\ ret.call = "germinate") =>
          IF ret.status = "ok"
          THEN /\ Cardinality(ret.texts) = 1
               /\ ret.errs = {}
               /\ \A lit \in SeqRange(PlaceholderTexts(template)) :
                     /\ lit \in DOMAIN replacements
                     /\ \E n \in 1..Len(loads) :
                           /\ loads[n].lit = lit
                           /\ loads[n].res.ok
                           /\ replacements[lit] = loads[n].res.value
          ELSE /\ ret.texts = {}
               /\ Cardinality(ret.errs) = 1
    /\ (mode = "cli" /\ pc # "exited") =>
          stdout = {} /\ outfile = {} /\ exitCode = -1
    /\ (mode = "cli" /\ pc = "exited" /\ ret.status # "ok") =>
          stdout = {} /\ outfile = {} /\ exitCode = 1

\* main was given an output file; germinate loaded one value and then failed.
C6_Witness ==
    /\ mode = "cli"
    /\ outArg = "path"
    /\ pc = "exited"
    /\ ret.status = "err"
    /\ Len(loads) = 2
    /\ loads[1].res.ok
    /\ exitCode = 1

\* C7: in one Seed get_loader constructs at most one loader per source, and
\* only for built-in sources; every get_loader for a built-in source, in this
\* call and in later ones, has returned the one instance constructed for it,
\* which is the registry's entry.
C7_OneLoaderPerSource ==
    /\ \A n, m \in 1..Len(constructions) :
          n # m => constructions[n] # constructions[m]
    /\ \A n \in 1..Len(constructions) :
          /\ constructions[n].variant # "Custom"
          /\ constructions[n] \in DOMAIN loaders
    /\ \A p \in served :
          p[1].variant # "Custom" =>
              /\ p[1] \in DOMAIN loaders
              /\ loaders[p[1]] = p[2]
              /\ \A q \in served : q[1] = p[1] => q[2] = p[2]
    /\ \A n \in 1..Len(lookups) :
          lookups[n].how = "constructed" =>
              /\ lookups[n].source \notin DOMAIN regsAtCall
              /\ \A m \in 1..(n - 1) : lookups[m].source # lookups[n].source

\* A later call on the Seed is served the environment loader that an earlier
\* call constructed.
C7_Witness ==
    /\ BuiltIn("Environment") \in DOMAIN regsAtCall
    /\ Len(constructions) = 1
    /\ Len(lookups) >= 1
    /\ lookups[1].source = BuiltIn("Environment")
    /\ lookups[1].how = "cached"

\* The texts of the load in flight, if any.
InFlightTexts ==
    IF inflight = {} THEN <<>> ELSE <<(CHOOSE inv \in inflight : TRUE).lit>>

\* C8: at most one load is in flight; the loads started so far in the call,
\* in the order they were started, are the first distinct placeholders of the
\* template in order of first occurrence; and a load is in flight only when
\* every load started before it has returned (successfully).
C8_LoadsOneAtATimeInOrder ==
    LET dp == DistinctPlaceholders(template)
        started == LoadTexts \o InFlightTexts
    IN /\ Cardinality(inflight) <= 1
       /\ (pc = "awaiting") = (inflight # {})
       /\ Len(started) <= Len(dp)
       /\ started = SubSeq(dp, 1, Len(started))
       /\ inflight # {} => AllLoadsOk

\* The third load is in flight after two have returned.
C8_Witness ==
    /\ pc = "awaiting"
    /\ Cardinality(inflight) = 1
    /\ Len(loads) = 2

\* The identity a tag stands for.
SourceOfTag(tag) ==
    IF tag = KeyEnv THEN BuiltIn("Environment")
    ELSE IF tag = KeyAwsSsm THEN BuiltIn("AwsSsm")
    ELSE IF tag = KeyAwsEc2Metadata THEN BuiltIn("AwsEc2Metadata")
    ELSE IF tag = KeyAwsEc2Tag THEN BuiltIn("AwsEc2Tag")
    ELSE [variant |-> "Custom", tag |-> tag]

\* C9: when parse succeeds, the keys of the returned map are exactly the
\* distinct placeholder texts of the template; there was one load per
\* distinct text, with the key of that text, on the loader of the source of
\* its tag (the registered one, or the default one of a built-in source), and
\* the map holds the value that load returned.
C9_MapHoldsEveryPlaceholder ==
    ParseOkReturned =>
        LET dp == DistinctPlaceholders(template)
        IN /\ ret.maps = {replacements}
           /\ DOMAIN replacements = SeqRange(dp)
           /\ LoadTexts = dp
           /\ \A n \in 1..Len(dp) :
                 LET source == SourceOfTag(TextTag(dp[n]))
                 IN /\ loads[n].key = TextKey(dp[n])
                    /\ loads[n].source = source
                    /\ IF source \in DOMAIN regsAtCall
                       THEN loads[n].loader = regsAtCall[source]
                       ELSE /\ loads[n].loader.origin = "default"
                            /\ source \in DOMAIN loaders
                            /\ loads[n].loader = loaders[source]
                    /\ loads[n].res.ok
                    /\ replacements[dp[n]] = loads[n].res.value

\* parse succeeded on %env:X%, %env:Y% (same tag, other key) and %c1:X%
\* (same key, other tag): three entries from three loads.
C9_Witness ==
    /\ ParseOkReturned
    /\ SeqRange(PlaceholderTexts(template)) = {PieceEnvX, PieceEnvY, PieceC1X}
    /\ Cardinality(DOMAIN replacements) = 3
    /\ Len(loads) = 3

\* Index i of t lies inside a placeholder.
InPlaceholder(t, i) ==
    \E n \in 1..Len(Placeholders(t, 1)) :
        Placeholders(t, 1)[n][1] <= i /\ i <= Placeholders(t, 1)[n][2]

\* A '%' outside every placeholder that opens one which is never closed, or
\* one whose tag holds a character that is no lower-case letter or digit.
OpensWithoutMatch(t, i) ==
    /\ t[i] = "%"
    /\ ~InPlaceholder(t, i)
    /\ \/ /\ i < Len(t)
          /\ \A x \in (i + 1)..Len(t) : t[x] # "%"
       \/ \E c \in (i + 2)..Len(t) :
             /\ t[c] = ":"
             /\ \A x \in (i + 1)..(c - 1) : t[x] \notin {"%", ":"}
             /\ \E x \in (i + 1)..(c - 1) : t[x] \notin TagChars

HasUnmatchedOpener(t) == \E i \in 1..Len(t) : OpensWithoutMatch(t, i)

\* The stretches of t outside its placeholders: before the first, between
\* two neighbours, after the last.
Gaps(t) ==
    LET ms == Placeholders(t, 1)
    IN [n \in 1..(Len(ms) + 1) |->
           SubSeq(t,
                  IF n = 1 THEN 1 ELSE ms[n - 1][2] + 1,
                  IF n = Len(ms) + 1 THEN Len(t) ELSE ms[n][1] - 1)]

\* out, from index i on, holds the gaps n.. in order, the last one at its end.
RECURSIVE KeepsGapsFrom(_, _, _, _)
KeepsGapsFrom(out, i, gaps, n) ==
    IF n = Len(gaps)
    THEN /\ Len(out) - Len(gaps[n]) + 1 >= i
         /\ SubSeq(out, Len(out) - Len(gaps[n]) + 1, Len(out)) = gaps[n]
    ELSE \E j \in i..(Len(out) + 1) :
            /\ OccursAt(out, gaps[n], j)
            /\ KeepsGapsFrom(out, j + Len(gaps[n]), gaps, n + 1)

\* out is the text before the first placeholder of t, then something for each
\* placeholder, each followed by the unchanged text after it.
KeepsGaps(out, t) ==
    LET gaps == Gaps(t)
    IN IF Len(gaps) = 1 THEN out = t
       ELSE /\ OccursAt(out, gaps[1], 1)
            /\ KeepsGapsFrom(out, 1 + Len(gaps[1]), gaps, 2)

\* Only text that matches the pattern is looked up and loaded, in scan order.
OnlyMatchesResolved ==
    LET dp == DistinctPlaceholders(template)
    IN /\ Len(lookups) <= Len(dp)
       /\ LookupTexts = SubSeq(dp, 1, Len(lookups))
       /\ (Returned /\ ret.status = "ok") => LookupTexts = dp
       /\ (Returned /\ dp = <<>>) =>
             /\ ret.status = "ok"
             /\ loads = <<>>
             /\ lookups = <<>>

\* C10: the placeholders parse resolves are exactly the leftmost,
\* non-overlapping matches of the pattern, in scan order; text that is no
\* match causes no lookup, no load and no error; and where the template
\* holds an opener that is never closed or has a bad tag, the text outside
\* the placeholders is still there, unchanged and in place, in the text
\* germinate returns.
C10_OnlyMatchesResolvedRestUnchanged ==
    /\ OnlyMatchesResolved
    /\ (GerminateOk /\ HasUnmatchedOpener(template)) =>
          \A out \in ret.texts : KeepsGaps(out, template)

\* The template holds no placeholder.
NoPlaceholders == PlaceholderTexts(template) = <<>>

\* C11: on a template that holds no placeholder no loader is ever looked up,
\* constructed or invoked (the registry holds only what the caller
\* registered); parse returns the empty map and germinate returns the
\* template itself.
C11_NoPlaceholderTemplateUnchanged ==
    NoPlaceholders =>
        /\ lookups = <<>>
        /\ loads = <<>>
        /\ inflight = {}
        /\ constructions = <<>>
        /\ served = {}
        /\ \A s \in DOMAIN loaders : loaders[s].origin = "caller"
        /\ Returned =>
              /\ ret.status = "ok"
              /\ ret.errs = {}
              /\ ret.call = "parse" => ret.maps = {EmptyMap}
              /\ ret.call = "germinate" => ret.texts = {template}

\* germinate returned a template of plain text with a stray '%' in it.
C11_Witness ==
    /\ GerminateOk
    /\ template = PieceTail \o PieceOpen
    /\ ret.texts = {template}
    /\ lookups = <<>>

\* parse returned the empty map for the empty template although a loader
\* was registered.
C11_WitnessParse ==
    /\ ParseOkReturned
    /\ template = <<>>
    /\ ret.maps = {EmptyMap}
    /\ DOMAIN loaders # {}

\* The texts an error names: what was interpolated into its message.
ErrorNames(e) == IF e.arg = <<>> THEN {} ELSE {e.arg}

\* C12: when a load failed, the error parse returns is the loader's error
\* (the cause) under the context of the load stage, and it names the key
\* that was being loaded and the tag of the source it was loaded from.
C12_LoadErrorCarriesKeyAndSource ==
    (Returned /\ LastLoadFailed) =>
        LET failed == loads[Len(loads)]
        IN /\ ret.status = "err"
           /\ ret.errs # {}
           /\ \A e \in ret.errs :
                 /\ e.context = "Failed to load value"
                 /\ e.msg = "loader error"
                 /\ failed.key \in ErrorNames(e)
                 /\ TextTag(failed.lit) \in ErrorNames(e)

\* What does hold of that error: it is the loader's error under the context
\* of the load stage, the same whatever key and source the load was for.
LoadErrorCarriesCauseOnly ==
    (Returned /\ LastLoadFailed) =>
        /\ ret.status = "err"
        /\ ret.errs = {LoadError}
        /\ \A e \in ret.errs : ErrorNames(e) = {}

\* The lookups of the running or last call whose constructor failed.
FailedConstructions == {n \in 1..Len(lookups) : ~lookups[n].built}

C13_WitnessRetry ==
    /\ Len(requests) > 3
    /\ requests[Len(requests)] = "describe-tags"
    /\ BuiltIn("AwsEc2Tag") \in DOMAIN loaders
    /\ SubSeq(requests, 1, 2) = <<"region", "region">>

\* This step is a call of add_custom_loader.
IsAddStep == addsLeft' # addsLeft

\* C14: the registry starts empty; a step of parse or germinate keeps every
\* entry as it is and adds at most entries for built-in identities, holding
\* default loaders; an entry for a custom identity appears or changes only
\* in a call of add_custom_loader, which stores the caller's loader under
\* the tag it was given and touches no other entry.  So a custom entry is
\* always one the caller registered.
C14_CustomEntriesOnlyFromCaller ==
    /\ [](\A s \in DOMAIN loaders :
             s.variant = "Custom" =>
                 loaders[s].origin = "caller" /\ loaders[s].type \in CallerLoaders)
    /\ [][ IF IsAddStep
           THEN \E key \in RegTags :
                   /\ DOMAIN loaders' = DOMAIN loaders \cup {Custom(key)}
                   /\ \A s \in DOMAIN loaders : s # Custom(key) => loaders'[s] = loaders[s]
           ELSE /\ DOMAIN loaders \subseteq DOMAIN loaders'
                /\ \A s \in DOMAIN loaders : loaders'[s] = loaders[s]
                /\ \A s \in DOMAIN loaders' \ DOMAIN loaders :
                      /\ s.variant # "Custom"
                      /\ loaders'[s].origin = "default"
         ]_vars

\* A call failed on the unregistered %c1:X% after it had built the
\* environment loader; the registry holds the loader registered under "env"
\* and the built-in one, and nothing for "c1".
C14_Witness ==
    /\ Returned
    /\ LastLookupUnsupported
    /\ Custom(<<"c", "1">>) \notin DOMAIN loaders
    /\ Custom(KeyEnv) \in DOMAIN loaders
    /\ BuiltIn("Environment") \in DOMAIN loaders

\* The identities there are for a tag.
SourcesFor(tag) ==
    {[variant |-> v, tag |-> <<>>] :
        v \in {"AwsEc2Tag", "AwsEc2Metadata", "AwsSsm", "Environment"}}
    \cup {[variant |-> "Custom", tag |-> tag]}

\* C15: every tag parse hands to Source::from comes back as a source
\* identity; the tags env, awsssm, awsec2metadata and awsec2tag, and no
\* others, come back as their built-in identities; any other tag t comes
\* back as Custom(t) with t unchanged; and the same tag comes back as the
\* same identity each time.
C15_SourceFromTotalAndDeterministic ==
    \A n \in 1..Len(lookups) :
        LET tag == TextTag(lookups[n].lit)
            s == lookups[n].source
        IN /\ s \in SourcesFor(tag)
           /\ (tag = <<"e", "n", "v">>) <=> (s.variant = "Environment")
           /\ (tag = <<"a", "w", "s", "s", "s", "m">>) <=> (s.variant = "AwsSsm")
           /\ (tag = <<"a", "w", "s", "e", "c", "2", "m", "e", "t", "a", "d", "a", "t", "a">>)
                 <=> (s.variant = "AwsEc2Metadata")
           /\ (tag = <<"a", "w", "s", "e", "c", "2", "t", "a", "g">>)
                 <=> (s.variant = "AwsEc2Tag")
           /\ \A m \in 1..Len(lookups) :
                 TextTag(lookups[m].lit) = tag => lookups[m].source = s

\* The tag "envs" was resolved to the custom identity of that name.
C15_Witness ==
    /\ Len(lookups) = 1
    /\ TextTag(lookups[1].lit) = <<"e", "n", "v", "s">>
    /\ lookups[1].source = [variant |-> "Custom", tag |-> <<"e", "n", "v", "s">>]

\* The tag "awsec2metadata" was resolved to its built-in identity.
C15_WitnessBuiltIn ==
    /\ Len(lookups) = 1
    /\ TextTag(lookups[1].lit)
          = <<"a", "w", "s", "e", "c", "2", "m", "e", "t", "a", "d", "a", "t", "a">>
    /\ lookups[1].source = [variant |-> "AwsEc2Metadata", tag |-> <<>>]

\* The tags the caller has registered a loader under.
AddedTags == {adds[n][1] : n \in 1..Len(adds)}

\* The loader given in the last add_custom_loader call for tag.
LastAdded(tag) ==
    LET last == CHOOSE n \in 1..Len(adds) :
                    /\ adds[n][1] = tag
                    /\ \A m \in (n + 1)..Len(adds) : adds[m][1] # tag
    IN [origin |-> "caller", type |-> adds[last][2], id |-> 0]

\* C16 as stated: a load that is started for a placeholder whose tag, built
\* in or not, the caller has registered loaders under is a load on the
\* loader registered last under that tag.
C16_LastRegisteredResolvesEveryTag ==
    \A inv \in inflight :
        TextTag(inv.lit) \in AddedTags => inv.loader = LastAdded(TextTag(inv.lit))

\* C16 amended: the registry's entry for the custom identity of a tag is the
\* loader given in the last add_custom_loader call for that tag; a call of
\* add_custom_loader changes that one entry and no other; and a load that
\* is started for a placeholder whose tag is not built in is a load on the
\* loader registered last under the tag, so a loader that was overwritten
\* is not invoked.
C16_LastRegisteredResolvesCustomTag ==
    /\ [](/\ \A tag \in AddedTags :
                /\ [variant |-> "Custom", tag |-> tag] \in DOMAIN loaders
                /\ loaders[[variant |-> "Custom", tag |-> tag]] = LastAdded(tag)
          /\ \A inv \in inflight :
                TextTag(inv.lit) \notin BuiltInTags =>
                    /\ TextTag(inv.lit) \in AddedTags
                    /\ inv.loader = LastAdded(TextTag(inv.lit)))
    /\ [][ IsAddStep =>
              /\ Len(adds') = Len(adds) + 1
              /\ \A s \in DOMAIN loaders :
                    s # [variant |-> "Custom", tag |-> adds'[Len(adds')][1]]
                        => (s \in DOMAIN loaders' /\ loaders'[s] = loaders[s])
         ]_vars

\* L1 and then L2 were registered under "c1"; the load for %c1:X% is on L2.
C16_Witness ==
    /\ adds = << <<(<<"c", "1">>), "L1">>, <<(<<"c", "1">>), "L2">> >>
    /\ \E inv \in inflight :
          /\ inv.lit = PieceC1X
          /\ inv.loader = [origin |-> "caller", type |-> "L2", id |-> 0]

Ec2TagSource == [variant |-> "AwsEc2Tag", tag |-> <<>>]

\* res is what looking key up in tags comes to: the value of the first tag
\* whose key is the key but for the case of its letters, or a failure when
\* there is no such tag or it has no value.
ServedFromTags(tags, key, res) ==
    LET same(n) == /\ tags[n].key.some
                   /\ ToLowercase(tags[n].key.v) = ToLowercase(key)
        hits == {n \in 1..Len(tags) : same(n)}
    IN IF \E n \in hits : (\A m \in hits : n <= m) /\ tags[n].value.some
       THEN /\ res.ok
            /\ \E n \in hits :
                  (\A m \in hits : n <= m) /\ res.value = tags[n].value.v
       ELSE ~res.ok

\* C17: the step in which the EC2 tag loader enters the registry makes one
\* request for the instance id and one for the tags; from then on, in this
\* call and in later ones, no step makes a request, the loader and its
\* stored tags stay as they are, and every load on the loader, whatever its
\* key, returns what the stored tags hold for the key.
C17_Ec2TagsFetchedOnce ==
    /\ [](\A n \in 1..Len(loads) :
             loads[n].loader.type = "AwsEc2TagLoader" =>
                 /\ Ec2TagSource \in DOMAIN loaders
                 /\ loads[n].loader = loaders[Ec2TagSource]
                 /\ ServedFromTags(ec2Tags, loads[n].key, loads[n].res))
    /\ [][ /\ Ec2TagSource \in DOMAIN loaders =>
                 /\ Ec2TagSource \in DOMAIN loaders'
                 /\ loaders'[Ec2TagSource] = loaders[Ec2TagSource]
                 /\ requests' = requests
                 /\ ec2Tags' = ec2Tags
           /\ (Ec2TagSource \notin DOMAIN loaders /\ Ec2TagSource \in DOMAIN loaders') =>
                 requests' = requests \o <<"region", "instance-id", "describe-tags">>
         ]_vars

\* One call loaded the tags A and B from the loader built for the first of
\* the two placeholders, after one instance id and one tag request.
C17_Witness ==
    /\ ParseOkReturned
    /\ template = PieceTagA \o PieceTagB
    /\ Len(loads) = 2
    /\ requests = <<"region", "instance-id", "describe-tags">>
    /\ constructions = <<Ec2TagSource>>

\* A second call on the Seed was served by the loader of the first: still
\* one instance id and one tag request.
C17_WitnessSession ==
    /\ Returned
    /\ Ec2TagSource \in DOMAIN regsAtCall
    /\ Len(loads) = 2
    /\ requests = <<"region", "instance-id", "describe-tags">>

\* C18: a call starts at most one load per distinct placeholder of the
\* template; while a load is awaited the only thing that happens is that
\* this load returns (parse neither returns nor starts a later load before
\* it has); and when every awaited load returns, a call that is awaiting a
\* load comes to its return.
C18_ParseReturnsWhenLoadsReturn ==
    /\ [](Len(loads) + Cardinality(inflight) <= Len(DistinctPlaceholders(template)))
    /\ [][ pc = "awaiting" =>
              \E inv \in inflight :
                  /\ Len(loads') = Len(loads) + 1
                  /\ SubSeq(loads', 1, Len(loads)) = loads
                  /\ loads'[Len(loads')].lit = inv.lit
                  /\ inv \notin inflight'
         ]_vars
    /\ (pc = "awaiting") ~> (pc # "awaiting" /\ ret.status # "none")

\* parse returned a map after one load for a template that holds the same
\* placeholder twice.
C18_Witness ==
    /\ Returned
    /\ ret.call = "parse"
    /\ ret.status = "ok"
    /\ Len(PlaceholderTexts(template)) = 2
    /\ Len(DistinctPlaceholders(template)) = 1
    /\ Len(loads) = 1

\* C19: when germinate succeeds, the text it returns does not depend on the
\* order in which the replacement map was iterated: every iteration order
\* of the map that parse returned leads to the text that was returned.
C19_OutputIndependentOfMapOrder ==
    GerminateOk => GerminateOutputs(template, replacements) = ret.texts

\* In this step a call fails on an unregistered custom tag.
FailsUnsupportedStep ==
    /\ pc = "awaiting" \/ callsLeft' # callsLeft
    /\ Len(lookups') > 0
    /\ lookups'[Len(lookups')].how = "unsupported"

\* C20: the template never changes.  The step in which a call fails on an
\* unregistered custom tag leaves in the registry the entries it held when
\* the call began, unchanged, plus the default loaders of the built-in
\* sources the call constructed before it failed.  A later call made with
\* the missing tags registered does not fail for them: when its loads
\* succeed it succeeds, having started again at the first placeholder and
\* loaded every distinct placeholder in order, the ones an earlier call had
\* loaded too, and every source that had an entry when the call began was
\* served that entry and constructed no loader.
C20_FailedParseDoesNotPoison ==
    /\ [][template' = template]_vars
    /\ [][ FailsUnsupportedStep =>
              /\ lookups'[Len(lookups')].source.tag \in unsupported'
              /\ DOMAIN loaders' =
                    DOMAIN regsAtCall'
                    \cup {lookups'[n].source :
                              n \in {x \in 1..Len(lookups') : lookups'[x].how = "constructed"}}
              /\ \A s \in DOMAIN regsAtCall' : loaders'[s] = regsAtCall'[s]
              /\ \A s \in DOMAIN loaders' \ DOMAIN regsAtCall' :
                    s.variant # "Custom" /\ loaders'[s].origin = "default"
         ]_vars
    /\ []((/\ unsupported # {}
           /\ Returned
           /\ \A tag \in unsupported : [variant |-> "Custom", tag |-> tag] \in DOMAIN regsAtCall
           /\ UnregisteredCustom(template) = {}
           /\ AllLoadsOk
           /\ AllBuilt) =>
              /\ ret.status = "ok"
              /\ LoadTexts = DistinctPlaceholders(template)
              /\ LookupTexts = DistinctPlaceholders(template)
              /\ \A n \in 1..Len(lookups) :
                    lookups[n].source \in DOMAIN regsAtCall =>
                        /\ lookups[n].how = "cached"
                        /\ loads[n].loader = regsAtCall[lookups[n].source])

\* parse failed on %c1:X% after loading %env:X%; a loader was then
\* registered under "c1" and parse succeeded, loading both placeholders,
\* %env:X% from the environment loader the failed call had built.
C20_Witness ==
    /\ ParseOkReturned
    /\ unsupported = {<<"c", "1">>}
    /\ template = PieceEnvX \o PieceC1X
    /\ adds = << <<(<<"c", "1">>), "L1">> >>
    /\ Len(loads) = 2
    /\ lookups[1].how = "cached"
    /\ Len(constructions) = 1

====
